---- MODULE Spec2Model ----
(***************************************************************************)
(* Position engine of the perps program (perps_math.rs): trade            *)
(* application, unrealized PnL, and the persisted position that callers    *)
(* feed back into the engine.                                              *)
(*                                                                         *)
(* Rust's fixed-width integers are modelled at a reduced word size: an    *)
(* i64 is a two's-complement word of WordBits bits, an i128/u128 has twice *)
(* as many bits.  Every checked operation fails exactly when its exact     *)
(* result leaves the range of its type, as in the source.                  *)
(*                                                                         *)
(* The arithmetic kernel (mul_div and its signed and rounding variants)    *)
(* and the margin and equity functions are observed one call at a time.   *)
(* overflow_checks is the build profile: whether `+`, `-` and unary `-`    *)
(* outside the checked_* methods abort on overflow or wrap.                *)
(*                                                                         *)
(* account is the margin side of the persisted position (collateral,       *)
(* funding checkpoint) with the market values its handlers read; the       *)
(* funding settlement and the liquidation handler act on it.               *)
(***************************************************************************)
EXTENDS Integers, Sequences, FiniteSets, TLC

VARIABLES pos, call, pnl_sum, trail, overflow_checks, account

vars == <<pos, call, pnl_sum, trail, overflow_checks, account>>

\* Bits of the scaled i64 word (i128 and u128 have 2 * WordBits bits).
WordBits == 3

----------------------------------------------------------------------------
\* Integer types

I64_MIN == -(2 ^ (WordBits - 1))

I64_MAX == 2 ^ (WordBits - 1) - 1

I128_MIN == -(2 ^ (2 * WordBits - 1))

I128_MAX == 2 ^ (2 * WordBits - 1) - 1

U128_MAX == 2 ^ (2 * WordBits) - 1

I64 == I64_MIN .. I64_MAX

I128 == I128_MIN .. I128_MAX

U128 == 0 .. U128_MAX

Abs(x) == IF x < 0 THEN -x ELSE x

Sign(x) == IF x > 0 THEN 1 ELSE IF x < 0 THEN -1 ELSE 0

Min(x, y) == IF x <= y THEN x ELSE y

\* Result<T>: Ok(v) or Err(CustomError::CalculationOverflow)
Ok(x) == [ok |-> TRUE, v |-> x, err |-> "none"]

ErrOverflow == [ok |-> FALSE, v |-> 0, err |-> "CalculationOverflow"]

\* i128::checked_add / checked_sub / checked_mul
checked_add_signed(base, delta) ==
    IF base + delta \in I128 THEN Ok(base + delta) ELSE ErrOverflow

checked_sub_signed(base, delta) ==
    IF base - delta \in I128 THEN Ok(base - delta) ELSE ErrOverflow

i128_checked_mul(a, b) ==
    IF a * b \in I128 THEN Ok(a * b) ELSE ErrOverflow

\* u128::checked_mul / checked_add
u128_checked_mul(a, b) ==
    IF a * b \in U128 THEN Ok(a * b) ELSE ErrOverflow

u128_checked_add(a, b) ==
    IF a + b \in U128 THEN Ok(a + b) ELSE ErrOverflow

\* i64::try_from(x) for x: i128 or u128
i64_try_from(x) ==
    IF x \in I64 THEN Ok(x) ELSE ErrOverflow

\* `x as u128` for x: i64 (sign extension, then reinterpretation)
as_u128(x) == IF x < 0 THEN x + U128_MAX + 1 ELSE x

----------------------------------------------------------------------------
\* PositionState and TradeResult

PositionState(b, e, r) ==
    [base_position |-> b, entry_price |-> e, realized_pnl |-> r]

TradeOk(b, e, r, d) ==
    [ok |-> TRUE, new_base_position |-> b, new_entry_price |-> e,
     new_realized_pnl |-> r, pnl_delta |-> d]

TradeErr ==
    [ok |-> FALSE, new_base_position |-> 0, new_entry_price |-> 0,
     new_realized_pnl |-> 0, pnl_delta |-> 0]

\* Variant: a zero-size trade re-marks the entry price at the trade price
trade_noop_reprices(state, trade_price) ==
    TradeOk(state.base_position, trade_price, state.realized_pnl, 0)

\* trade_base_delta == 0: the state is returned as it is
trade_noop(state, trade_price) ==
    TradeOk(state.base_position, state.entry_price, state.realized_pnl, 0)

\* Variant: opening from flat keeps the snapshot's stale entry price
trade_open_keeps_entry(state, new_base, trade_price) ==
    TradeOk(new_base, state.entry_price, state.realized_pnl, 0)

\* Case 0: no existing position
trade_open(state, new_base, trade_price) ==
    TradeOk(new_base, trade_price, state.realized_pnl, 0)

\* Variant: the weighted average is rounded up instead of truncated
trade_increase_rounds_up(state, delta, new_base_i128, new_base, trade_price) ==
    LET abs_old   == Abs(state.base_position)
        abs_delta == Abs(delta)
        abs_new   == Abs(new_base_i128)
        old_cost  == u128_checked_mul(abs_old, as_u128(state.entry_price))
        delta_cost == u128_checked_mul(abs_delta, as_u128(trade_price))
    IN  IF abs_new = 0 THEN TradeErr
        ELSE IF ~old_cost.ok THEN TradeErr
        ELSE IF ~delta_cost.ok THEN TradeErr
        ELSE LET total_cost == u128_checked_add(old_cost.v, delta_cost.v)
             IN  IF ~total_cost.ok THEN TradeErr
                 ELSE LET avg_entry ==
                              (total_cost.v + abs_new - 1) \div abs_new
                          avg_entry_i64 == i64_try_from(avg_entry)
                      IN  IF ~avg_entry_i64.ok THEN TradeErr
                          ELSE TradeOk(new_base, avg_entry_i64.v,
                                       state.realized_pnl, 0)

\* Case 1: increase in the same direction, weighted average entry price
trade_increase(state, delta, new_base_i128, new_base, trade_price) ==
    LET abs_old   == Abs(state.base_position)
        abs_delta == Abs(delta)
        abs_new   == Abs(new_base_i128)
        old_cost  == u128_checked_mul(abs_old, as_u128(state.entry_price))
        delta_cost == u128_checked_mul(abs_delta, as_u128(trade_price))
    IN  IF abs_new = 0 THEN TradeErr
        ELSE IF ~old_cost.ok THEN TradeErr
        ELSE IF ~delta_cost.ok THEN TradeErr
        ELSE LET total_cost == u128_checked_add(old_cost.v, delta_cost.v)
             IN  IF ~total_cost.ok THEN TradeErr
                 ELSE LET avg_entry == total_cost.v \div abs_new
                          avg_entry_i64 == i64_try_from(avg_entry)
                      IN  IF ~avg_entry_i64.ok THEN TradeErr
                          ELSE TradeOk(new_base, avg_entry_i64.v,
                                       state.realized_pnl, 0)

\* Variant: the direction factor is dropped (a short is priced like a long)
realized_on_close_unsigned(state, delta, trade_price) ==
    LET close_size == Min(Abs(state.base_position), Abs(delta))
        price_diff == checked_sub_signed(trade_price, state.entry_price)
    IN  IF ~price_diff.ok THEN ErrOverflow
        ELSE i128_checked_mul(close_size, price_diff.v)

\* PnL realized on the closed portion of an opposite-direction trade
realized_on_close(state, delta, trade_price) ==
    LET old_base   == state.base_position
        abs_old    == Abs(old_base)
        abs_delta  == Abs(delta)
        close_size == Min(abs_old, abs_delta)
        price_diff == checked_sub_signed(trade_price, state.entry_price)
        direction  == IF old_base > 0 THEN 1 ELSE -1
    IN  IF ~price_diff.ok THEN ErrOverflow
        ELSE LET m1 == i128_checked_mul(close_size, price_diff.v)
             IN  IF ~m1.ok THEN ErrOverflow
                 ELSE i128_checked_mul(m1.v, direction)

\* Variant: a full close leaves the old entry price in place
trade_settle_close_keeps_entry(state, new_base, trade_price, new_realized, pnl_delta) ==
    IF new_base = 0
    THEN TradeOk(0, state.entry_price, new_realized, pnl_delta)
    ELSE IF (new_base > 0) = (state.base_position > 0)
    THEN TradeOk(new_base, state.entry_price, new_realized, pnl_delta)
    ELSE TradeOk(new_base, trade_price, new_realized, pnl_delta)

\* Variant: a partial reduction re-marks the entry price at the trade price
trade_settle_reduce_reprices(state, new_base, trade_price, new_realized, pnl_delta) ==
    IF new_base = 0
    THEN TradeOk(0, 0, new_realized, pnl_delta)
    ELSE TradeOk(new_base, trade_price, new_realized, pnl_delta)

\* Variant: a flip keeps the closed position's entry price
trade_settle_flip_keeps_entry(state, new_base, trade_price, new_realized, pnl_delta) ==
    IF new_base = 0
    THEN TradeOk(0, 0, new_realized, pnl_delta)
    ELSE TradeOk(new_base, state.entry_price, new_realized, pnl_delta)

\* Cases 2, 3, 4: partial reduction, full close, direction flip
trade_settle(state, new_base, trade_price, new_realized, pnl_delta) ==
    IF new_base = 0
    THEN TradeOk(0, 0, new_realized, pnl_delta)
    ELSE IF (new_base > 0) = (state.base_position > 0)
    THEN TradeOk(new_base, state.entry_price, new_realized, pnl_delta)
    ELSE TradeOk(new_base, trade_price, new_realized, pnl_delta)

\* Variant: the realized total is returned without this trade's PnL
trade_opposite_drops_pnl(state, delta, new_base, trade_price) ==
    LET pnl_delta == realized_on_close(state, delta, trade_price)
    IN  IF ~pnl_delta.ok THEN TradeErr
        ELSE trade_settle(state, new_base, trade_price,
                          state.realized_pnl, pnl_delta.v)

trade_opposite(state, delta, new_base, trade_price) ==
    LET pnl_delta == realized_on_close(state, delta, trade_price)
    IN  IF ~pnl_delta.ok THEN TradeErr
        ELSE LET new_realized ==
                     checked_add_signed(state.realized_pnl, pnl_delta.v)
             IN  IF ~new_realized.ok THEN TradeErr
                 ELSE trade_settle(state, new_base, trade_price,
                                   new_realized.v, pnl_delta.v)

apply_trade_to_position(state, trade_base_delta, trade_price) ==
    IF trade_base_delta = 0 THEN trade_noop(state, trade_price)
    ELSE
    LET old_base      == state.base_position
        delta         == trade_base_delta
        new_base_i128 == checked_add_signed(old_base, delta)
    IN  IF ~new_base_i128.ok THEN TradeErr
        ELSE
        LET new_base == i64_try_from(new_base_i128.v)
        IN  IF ~new_base.ok THEN TradeErr
            ELSE IF state.base_position = 0
            THEN trade_open(state, new_base.v, trade_price)
            ELSE IF (old_base > 0 /\ delta > 0) \/ (old_base < 0 /\ delta < 0)
            THEN trade_increase(state, delta, new_base_i128.v, new_base.v,
                                trade_price)
            ELSE trade_opposite(state, delta, new_base.v, trade_price)

\* unrealized_pnl(base_position, entry_price, mark_price)
unrealized_pnl(base_position, entry_price, mark_price) ==
    IF base_position = 0 THEN Ok(0)
    ELSE LET price_diff == checked_sub_signed(mark_price, entry_price)
         IN  IF ~price_diff.ok THEN ErrOverflow
             ELSE i128_checked_mul(base_position, price_diff.v)

----------------------------------------------------------------------------
\* Arithmetic kernel

\* The call aborts: no Result reaches the caller.
Panic == [ok |-> FALSE, v |-> 0, err |-> "panic"]

ErrLeverage == [ok |-> FALSE, v |-> 0, err |-> "InvalidLeverage"]

\* i128::try_from(x) for x: u128
i128_try_from(x) ==
    IF x \in I128 THEN Ok(x) ELSE ErrOverflow

\* The i128 that a wrapping operation leaves for the exact value x
wrap_i128(x) == ((x - I128_MIN) % (U128_MAX + 1)) + I128_MIN

\* `+`, `-` and unary `-` on i128 with exact value x: x when it fits; on
\* overflow the call aborts under overflow checks and wraps without them.
i128_arith(x) ==
    IF x \in I128 THEN Ok(x)
    ELSE IF overflow_checks THEN Panic
    ELSE Ok(wrap_i128(x))

\* `a / b` and `a % b` on i128, b # 0 and not (i128::MIN, -1): the quotient
\* is truncated toward zero, the remainder has the sign of the dividend.
i128_div(a, b) == Sign(a) * Sign(b) * (Abs(a) \div Abs(b))

i128_rem(a, b) == a - b * i128_div(a, b)

\* (quotient, remainder) results of the wide path
WideOk(q, r) == [ok |-> TRUE, q |-> q, r |-> r, err |-> "none"]

WideErr == [ok |-> FALSE, q |-> 0, r |-> 0, err |-> "CalculationOverflow"]

\* 2^64 at the reduced word size: a u128 splits into two halves of WordBits
HalfWord == 2 ^ WordBits

full_mul_u128(a, b) ==
    LET a_lo == a % HalfWord
        a_hi == a \div HalfWord
        b_lo == b % HalfWord
        b_hi == b \div HalfWord
        ll == a_lo * b_lo
        lh == a_lo * b_hi
        hl == a_hi * b_lo
        hh == a_hi * b_hi
        mid_sum == (ll \div HalfWord) + (lh % HalfWord) + (hl % HalfWord)
        lo == (ll % HalfWord) + ((mid_sum % HalfWord) * HalfWord)
        hi == hh + (lh \div HalfWord) + (hl \div HalfWord)
                 + (mid_sum \div HalfWord)
    IN  [hi |-> hi, lo |-> lo]

\* `x << 1` on u128: the bit shifted out of the word is dropped.
u128_shl1(x) == (2 * x) % (U128_MAX + 1)

\* The loop of wide_div_u256 from bit i of lo down to bit 0
RECURSIVE wide_div_loop(_, _, _, _, _)
wide_div_loop(i, remainder, quotient, lo, d) ==
    IF i < 0 THEN WideOk(quotient, remainder)
    ELSE LET shifted == u128_shl1(remainder) + ((lo \div (2 ^ i)) % 2)
         IN  IF shifted >= d
             THEN wide_div_loop(i - 1, shifted - d, u128_shl1(quotient) + 1,
                                lo, d)
             ELSE wide_div_loop(i - 1, shifted, u128_shl1(quotient), lo, d)

wide_div_u256(hi, lo, d) ==
    IF hi >= d THEN WideErr
    ELSE wide_div_loop(2 * WordBits - 1, hi, 0, lo, d)

\* The 256-bit path of wide_mul_div_with_rem_u128
wide_mul_then_div(a, b, d) ==
    LET product == full_mul_u128(a, b)
    IN  wide_div_u256(product.hi, product.lo, d)

wide_mul_div_with_rem_u128(a, b, d) ==
    IF d = 0 THEN WideErr
    ELSE IF a = 0 \/ b = 0 THEN WideOk(0, 0)
    ELSE IF u128_checked_mul(a, b).ok
    THEN WideOk((a * b) \div d, (a * b) % d)
    ELSE wide_mul_then_div(a, b, d)

wide_mul_div_u128(a, b, d) ==
    LET qr == wide_mul_div_with_rem_u128(a, b, d)
    IN  IF qr.ok THEN Ok(qr.q) ELSE ErrOverflow

mul_div(a, b, denom) ==
    IF denom = 0 THEN ErrOverflow
    ELSE wide_mul_div_u128(a, b, denom)

\* (a < 0) ^ (b < 0) ^ (denom < 0)
sign_parity(a, b, denom) == ((a < 0) # (b < 0)) # (denom < 0)

signed_mul_div_ignores_denom_sign(a, b, denom) ==
    IF denom = 0 THEN ErrOverflow
    ELSE LET abs_result == wide_mul_div_u128(Abs(a), Abs(b), Abs(denom))
         IN  IF ~abs_result.ok THEN ErrOverflow
             ELSE IF ~i128_try_from(abs_result.v).ok THEN ErrOverflow
             ELSE IF (a < 0) # (b < 0) THEN i128_arith(-abs_result.v)
             ELSE Ok(abs_result.v)

signed_mul_div(a, b, denom) ==
    IF denom = 0 THEN ErrOverflow
    ELSE LET abs_result == wide_mul_div_u128(Abs(a), Abs(b), Abs(denom))
         IN  IF ~abs_result.ok THEN ErrOverflow
             ELSE IF ~i128_try_from(abs_result.v).ok THEN ErrOverflow
             ELSE IF sign_parity(a, b, denom) THEN i128_arith(-abs_result.v)
             ELSE Ok(abs_result.v)

floor_div(a, b) ==
    IF b = 0 THEN ErrOverflow
    ELSE IF a = I128_MIN /\ b = -1 THEN Panic
    ELSE LET d == i128_div(a, b)
             r == i128_rem(a, b)
         IN  IF r # 0 /\ ((r < 0) # (b < 0)) THEN i128_arith(d - 1)
             ELSE Ok(d)

ceil_div(a, b) ==
    IF b = 0 THEN ErrOverflow
    ELSE IF a = I128_MIN /\ b = -1 THEN Panic
    ELSE LET d == i128_div(a, b)
             r == i128_rem(a, b)
         IN  IF r # 0 /\ ((r < 0) = (b < 0)) THEN i128_arith(d + 1)
             ELSE Ok(d)

\* -(x) where x is the Result of an earlier plain operation
i128_neg(x) == IF x.ok THEN i128_arith(-x.v) ELSE x

signed_mul_div_floor(a, b, denom) ==
    IF denom = 0 THEN ErrOverflow
    ELSE LET qr == wide_mul_div_with_rem_u128(Abs(a), Abs(b), Abs(denom))
         IN  IF ~qr.ok THEN ErrOverflow
             ELSE IF ~i128_try_from(qr.q).ok THEN ErrOverflow
             ELSE IF sign_parity(a, b, denom)
             THEN IF qr.r # 0 THEN i128_neg(i128_arith(qr.q + 1))
                  ELSE i128_arith(-qr.q)
             ELSE Ok(qr.q)

signed_mul_div_ceil(a, b, denom) ==
    IF denom = 0 THEN ErrOverflow
    ELSE LET qr == wide_mul_div_with_rem_u128(Abs(a), Abs(b), Abs(denom))
         IN  IF ~qr.ok THEN ErrOverflow
             ELSE IF ~i128_try_from(qr.q).ok THEN ErrOverflow
             ELSE IF sign_parity(a, b, denom) THEN i128_arith(-qr.q)
             ELSE IF qr.r # 0 THEN i128_arith(qr.q + 1)
             ELSE Ok(qr.q)

----------------------------------------------------------------------------
\* Margin and equity

\* u64 and u16 are unsigned words of WordBits bits.
U64_MAX == 2 ^ WordBits - 1

U16_MAX == 2 ^ WordBits - 1

U64 == 0 .. U64_MAX

U16 == 0 .. U16_MAX

\* 10_000 basis points (100%) at the reduced word size: as in the source, a
\* u16 reaches beyond it and the i128 product notional * mm_bps can overflow.
BPS_DENOMINATOR == 2 ^ (WordBits - 1)

notional_value(base_position, price) ==
    LET n == u128_checked_mul(Abs(base_position), Abs(price))
    IN  IF ~n.ok THEN ErrOverflow ELSE i128_try_from(n.v)

required_margin_scaled(notional, leverage) ==
    IF leverage = 0 THEN ErrLeverage
    ELSE ceil_div(notional, leverage)

initial_margin_truncates(notional, leverage) ==
    IF leverage = 0 THEN ErrLeverage
    ELSE Ok(i128_div(notional, leverage))

initial_margin(notional, leverage) ==
    IF leverage = 0 THEN ErrLeverage
    ELSE ceil_div(notional, leverage)

maintenance_margin_rounds_down(notional, mm_bps) ==
    LET numerator == i128_checked_mul(notional, mm_bps)
    IN  IF ~numerator.ok THEN ErrOverflow
        ELSE floor_div(numerator.v, BPS_DENOMINATOR)

maintenance_margin(notional, mm_bps) ==
    LET numerator == i128_checked_mul(notional, mm_bps)
    IN  IF ~numerator.ok THEN ErrOverflow
        ELSE ceil_div(numerator.v, BPS_DENOMINATOR)

compute_equity_adds_funding(collateral, realized_pnl, base_position, entry_price, mark_price, funding_owed) ==
    LET upnl == unrealized_pnl(base_position, entry_price, mark_price)
    IN  IF ~upnl.ok THEN ErrOverflow
        ELSE LET with_realized == checked_add_signed(collateral, realized_pnl)
             IN  IF ~with_realized.ok THEN ErrOverflow
                 ELSE LET with_upnl ==
                              checked_add_signed(with_realized.v, upnl.v)
                      IN  IF ~with_upnl.ok THEN ErrOverflow
                          ELSE checked_add_signed(with_upnl.v, funding_owed)

compute_equity(collateral, realized_pnl, base_position, entry_price, mark_price, funding_owed) ==
    LET upnl == unrealized_pnl(base_position, entry_price, mark_price)
    IN  IF ~upnl.ok THEN ErrOverflow
        ELSE LET with_realized == checked_add_signed(collateral, realized_pnl)
             IN  IF ~with_realized.ok THEN ErrOverflow
                 ELSE LET with_upnl ==
                              checked_add_signed(with_realized.v, upnl.v)
                      IN  IF ~with_upnl.ok THEN ErrOverflow
                          ELSE checked_sub_signed(with_upnl.v, funding_owed)

can_increase_position(equity_after, im) == equity_after >= im

is_liquidatable_check_inclusive(equity, mm) == equity <= mm

is_liquidatable_check(equity, mm) == equity < mm

position_equity(collateral, base_position, entry_price, mark_price) ==
    compute_equity(collateral, 0, base_position, entry_price, mark_price, 0)

is_liquidatable(collateral, base_position, entry_price, mark_price, maintenance_margin_bps) ==
    IF base_position = 0 THEN Ok(FALSE)
    ELSE LET equity == compute_equity(collateral, 0, base_position,
                                      entry_price, mark_price, 0)
             notional == notional_value(base_position, mark_price)
         IN  IF ~equity.ok THEN equity
             ELSE IF ~notional.ok THEN ErrOverflow
             ELSE LET mm == maintenance_margin(notional.v,
                                               maintenance_margin_bps)
                  IN  IF ~mm.ok THEN mm
                      ELSE Ok(is_liquidatable_check(equity.v, mm.v))

----------------------------------------------------------------------------
\* Liquidation close size

\* `x as i64` for x: u64 (the word reinterpreted as signed)
as_i64(x) == IF x > I64_MAX THEN x - (U64_MAX + 1) ELSE x

Max(x, y) == IF x >= y THEN x ELSE y

\* compute_liquidation_close_size once equity > 0 is known
close_size_partial(abs_base, equity, base_position, mark_price, maintenance_margin_bps) ==
    LET notional == notional_value(base_position, mark_price)
    IN  IF ~notional.ok THEN ErrOverflow
        ELSE LET mm == maintenance_margin(notional.v, maintenance_margin_bps)
             IN  IF ~mm.ok THEN mm
                 ELSE IF ~checked_sub_signed(mm.v, equity).ok THEN ErrOverflow
                 ELSE IF mm.v - equity <= 0 THEN Ok(0)
                 ELSE LET mm_per_unit_num ==
                              i128_checked_mul(Abs(mark_price),
                                               maintenance_margin_bps)
                      IN  IF ~mm_per_unit_num.ok THEN ErrOverflow
                          ELSE LET mm_per_unit ==
                                       ceil_div(mm_per_unit_num.v,
                                                BPS_DENOMINATOR)
                               IN  IF ~mm_per_unit.ok THEN mm_per_unit
                                   ELSE IF mm_per_unit.v = 0 THEN Ok(abs_base)
                                   ELSE LET close_size ==
                                                ceil_div(mm.v - equity,
                                                         mm_per_unit.v)
                                        IN  IF ~close_size.ok THEN close_size
                                            ELSE IF ~i64_try_from(
                                                        Min(close_size.v,
                                                            abs_base)).ok
                                            THEN ErrOverflow
                                            ELSE Ok(Max(Min(close_size.v,
                                                            abs_base), 1))

compute_liquidation_close_size(collateral, base_position, entry_price, mark_price, maintenance_margin_bps) ==
    LET abs_base == as_i64(Abs(base_position))
    IN  IF abs_base = 0 THEN Ok(0)
        ELSE LET equity == compute_equity(collateral, 0, base_position,
                                          entry_price, mark_price, 0)
             IN  IF ~equity.ok THEN equity
                 ELSE IF equity.v <= 0 THEN Ok(abs_base)
                 ELSE close_size_partial(abs_base, equity.v, base_position,
                                         mark_price, maintenance_margin_bps)

----------------------------------------------------------------------------
\* Funding settlement

\* Ok((new_collateral, new_checkpoint, funding_delta))
SettleOk(new_collateral, new_checkpoint, funding_delta) ==
    [ok |-> TRUE, new_collateral |-> new_collateral,
     new_checkpoint |-> new_checkpoint, funding_delta |-> funding_delta,
     err |-> "none"]

SettleErr ==
    [ok |-> FALSE, new_collateral |-> 0, new_checkpoint |-> 0,
     funding_delta |-> 0, err |-> "CalculationOverflow"]

\* u64::try_from(x) for x: i128
u64_try_from(x) ==
    IF x \in U64 THEN Ok(x) ELSE ErrOverflow

settle_funding_inner_keeps_checkpoint(base_position, collateral, last_cum_funding, market_cum_funding) ==
    IF base_position = 0 THEN SettleOk(collateral, last_cum_funding, 0)
    ELSE LET cum_diff == checked_sub_signed(market_cum_funding,
                                            last_cum_funding)
         IN  IF ~cum_diff.ok THEN SettleErr
             ELSE IF cum_diff.v = 0
             THEN SettleOk(collateral, last_cum_funding, 0)
             ELSE LET funding_delta ==
                          i128_checked_mul(base_position, cum_diff.v)
                  IN  IF ~funding_delta.ok THEN SettleErr
                      ELSE IF ~checked_sub_signed(collateral,
                                                  funding_delta.v).ok
                      THEN SettleErr
                      ELSE IF collateral - funding_delta.v <= 0
                      THEN SettleOk(0, last_cum_funding, funding_delta.v)
                      ELSE IF ~u64_try_from(collateral - funding_delta.v).ok
                      THEN SettleErr
                      ELSE SettleOk(collateral - funding_delta.v,
                                    last_cum_funding, funding_delta.v)

settle_funding_inner_credits_delta(base_position, collateral, last_cum_funding, market_cum_funding) ==
    IF base_position = 0 THEN SettleOk(collateral, market_cum_funding, 0)
    ELSE LET cum_diff == checked_sub_signed(market_cum_funding,
                                            last_cum_funding)
         IN  IF ~cum_diff.ok THEN SettleErr
             ELSE IF cum_diff.v = 0
             THEN SettleOk(collateral, market_cum_funding, 0)
             ELSE LET funding_delta ==
                          i128_checked_mul(base_position, cum_diff.v)
                  IN  IF ~funding_delta.ok THEN SettleErr
                      ELSE IF ~checked_add_signed(collateral,
                                                  funding_delta.v).ok
                      THEN SettleErr
                      ELSE IF collateral + funding_delta.v <= 0
                      THEN SettleOk(0, market_cum_funding, funding_delta.v)
                      ELSE IF ~u64_try_from(collateral + funding_delta.v).ok
                      THEN SettleErr
                      ELSE SettleOk(collateral + funding_delta.v,
                                    market_cum_funding, funding_delta.v)

settle_funding_inner_flat_charges(base_position, collateral, last_cum_funding, market_cum_funding) ==
    LET cum_diff == checked_sub_signed(market_cum_funding, last_cum_funding)
    IN  IF ~cum_diff.ok THEN SettleErr
        ELSE IF cum_diff.v = 0
        THEN SettleOk(collateral, market_cum_funding, 0)
        ELSE IF base_position = 0
        THEN SettleOk(collateral, market_cum_funding, cum_diff.v)
        ELSE LET funding_delta == i128_checked_mul(base_position, cum_diff.v)
             IN  IF ~funding_delta.ok THEN SettleErr
                 ELSE IF ~checked_sub_signed(collateral, funding_delta.v).ok
                 THEN SettleErr
                 ELSE IF collateral - funding_delta.v <= 0
                 THEN SettleOk(0, market_cum_funding, funding_delta.v)
                 ELSE IF ~u64_try_from(collateral - funding_delta.v).ok
                 THEN SettleErr
                 ELSE SettleOk(collateral - funding_delta.v,
                               market_cum_funding, funding_delta.v)

settle_funding_inner(base_position, collateral, last_cum_funding, market_cum_funding) ==
    IF base_position = 0 THEN SettleOk(collateral, market_cum_funding, 0)
    ELSE LET cum_diff == checked_sub_signed(market_cum_funding,
                                            last_cum_funding)
         IN  IF ~cum_diff.ok THEN SettleErr
             ELSE IF cum_diff.v = 0
             THEN SettleOk(collateral, market_cum_funding, 0)
             ELSE LET funding_delta ==
                          i128_checked_mul(base_position, cum_diff.v)
                  IN  IF ~funding_delta.ok THEN SettleErr
                      ELSE IF ~checked_sub_signed(collateral,
                                                  funding_delta.v).ok
                      THEN SettleErr
                      ELSE IF collateral - funding_delta.v <= 0
                      THEN SettleOk(0, market_cum_funding, funding_delta.v)
                      ELSE IF ~u64_try_from(collateral - funding_delta.v).ok
                      THEN SettleErr
                      ELSE SettleOk(collateral - funding_delta.v,
                                    market_cum_funding, funding_delta.v)

----------------------------------------------------------------------------
\* liquidate_position

\* PRICE_SCALE (1_000_000) and the market's liquidation fee and penalty
\* rates (250 of 10_000 each), at the reduced word size: the smallest
\* non-zero rate, and a divisor that leaves small notionals without a fee.
PRICE_SCALE == 2 ^ (WordBits - 2)

liquidation_fee_bps == 1

liquidation_penalty_bps == 1

i64_checked_neg(x) ==
    IF -x \in I64 THEN Ok(-x) ELSE ErrOverflow

u64_checked_add(a, b) ==
    IF a + b \in U64 THEN Ok(a + b) ELSE ErrOverflow

\* closed_notional * bps / 10_000 / PRICE_SCALE as a u64, 0 when it does
\* not fit; closed_notional >= 0
liquidation_fee(closed_notional, bps) ==
    LET scaled == i128_checked_mul(closed_notional, bps)
    IN  IF ~scaled.ok THEN ErrOverflow
        ELSE LET fee == (scaled.v \div BPS_DENOMINATOR) \div PRICE_SCALE
             IN  Ok(IF u64_try_from(fee).ok THEN fee ELSE 0)

\* The outcome of one liquidate_position call on account `acc`: `eligible`
\* says that the call passed the is_liquidatable requirement
LiquidateErr(acc, eligible, err) ==
    [ok |-> FALSE, eligible |-> eligible, err |-> err, account |-> acc,
     liq_fee |-> 0, insurance_penalty |-> 0]

LiquidateOk(acc, liq_fee, insurance_penalty) ==
    [ok |-> TRUE, eligible |-> TRUE, err |-> "none", account |-> acc,
     liq_fee |-> liq_fee, insurance_penalty |-> insurance_penalty]

\* Vault transfers, open interest and the position update
liquidate_update(acc, checkpoint, actual_close, is_full_close, result, closed_notional, liq_fee, insurance_penalty, remaining_collateral_i128) ==
    LET deficit == Abs(remaining_collateral_i128)
        bad_debt == IF u64_try_from(deficit).ok THEN deficit ELSE U64_MAX
        in_debt == remaining_collateral_i128 < 0
        covered == acc.insurance_balance >= bad_debt
        balance_after_debt ==
            IF ~in_debt THEN acc.insurance_balance
            ELSE IF covered THEN acc.insurance_balance - bad_debt
            ELSE 0
        remaining_collateral ==
            u64_try_from(Max(remaining_collateral_i128, 0))
        actual_liq_fee == Min(liq_fee, acc.collateral_vault)
        actual_penalty ==
            Min(insurance_penalty,
                Max(acc.collateral_vault - actual_liq_fee, 0))
        balance_after_penalty ==
            u64_checked_add(balance_after_debt, actual_penalty)
        open_interest == checked_sub_signed(acc.open_interest, closed_notional)
        user_collateral ==
            IF is_full_close /\ remaining_collateral.v > 0
            THEN u64_checked_add(acc.user_collateral, remaining_collateral.v)
            ELSE Ok(acc.user_collateral)
    IN  IF ~remaining_collateral.ok
        THEN LiquidateErr(acc, TRUE, "CalculationOverflow")
        ELSE IF ~balance_after_penalty.ok
        THEN LiquidateErr(acc, TRUE, "CalculationOverflow")
        ELSE IF ~user_collateral.ok
        THEN LiquidateErr(acc, TRUE, "CalculationOverflow")
        ELSE LiquidateOk(
                 [acc EXCEPT
                      !.base_position =
                          IF is_full_close THEN 0
                          ELSE result.new_base_position,
                      !.entry_price =
                          IF is_full_close THEN 0 ELSE result.new_entry_price,
                      !.realized_pnl = result.new_realized_pnl,
                      !.collateral =
                          IF is_full_close THEN 0 ELSE remaining_collateral.v,
                      !.last_funding =
                          IF is_full_close THEN 0 ELSE checkpoint,
                      !.insurance_balance = balance_after_penalty.v,
                      !.emergency = @ \/ (in_debt /\ ~covered),
                      !.collateral_vault =
                          @ - actual_liq_fee - actual_penalty,
                      !.user_collateral = user_collateral.v,
                      !.open_interest =
                          IF open_interest.ok THEN open_interest.v ELSE 0],
                 liq_fee, insurance_penalty)

\* Fees and the collateral that remains after the closing trade
liquidate_fees(acc, collateral, checkpoint, actual_close, is_full_close, result) ==
    LET closed_notional == notional_value(actual_close, acc.oracle_price)
    IN  IF ~closed_notional.ok
        THEN LiquidateErr(acc, TRUE, "CalculationOverflow")
        ELSE LET liq_fee ==
                     liquidation_fee(closed_notional.v, liquidation_fee_bps)
                 insurance_penalty ==
                     liquidation_fee(closed_notional.v,
                                     liquidation_penalty_bps)
                 credited == checked_add_signed(collateral, result.pnl_delta)
             IN  IF ~liq_fee.ok \/ ~insurance_penalty.ok \/ ~credited.ok
                 THEN LiquidateErr(acc, TRUE, "CalculationOverflow")
                 ELSE IF ~checked_sub_signed(credited.v, liq_fee.v).ok
                 THEN LiquidateErr(acc, TRUE, "CalculationOverflow")
                 ELSE IF ~checked_sub_signed(credited.v - liq_fee.v,
                                             insurance_penalty.v).ok
                 THEN LiquidateErr(acc, TRUE, "CalculationOverflow")
                 ELSE liquidate_update(acc, checkpoint, actual_close,
                                       is_full_close, result,
                                       closed_notional.v, liq_fee.v,
                                       insurance_penalty.v,
                                       credited.v - liq_fee.v
                                           - insurance_penalty.v)

\* Close size, close delta and the closing trade at the oracle price
liquidate_close(acc, collateral, checkpoint) ==
    LET close_size_abs ==
            compute_liquidation_close_size(collateral, acc.base_position,
                                           acc.entry_price, acc.oracle_price,
                                           acc.maintenance_margin_bps)
    IN  IF ~close_size_abs.ok THEN LiquidateErr(acc, TRUE, close_size_abs.err)
        ELSE LET abs_base == as_i64(Abs(acc.base_position))
                 actual_close == Min(close_size_abs.v, abs_base)
                 is_full_close == actual_close >= abs_base
                 close_delta ==
                     IF acc.base_position > 0
                     THEN i64_checked_neg(actual_close)
                     ELSE Ok(actual_close)
             IN  IF ~close_delta.ok
                 THEN LiquidateErr(acc, TRUE, "CalculationOverflow")
                 ELSE LET result ==
                              apply_trade_to_position(
                                  PositionState(acc.base_position,
                                                acc.entry_price,
                                                acc.realized_pnl),
                                  close_delta.v, acc.oracle_price)
                      IN  IF ~result.ok
                          THEN LiquidateErr(acc, TRUE, "CalculationOverflow")
                          ELSE liquidate_fees(acc, collateral, checkpoint,
                                              actual_close, is_full_close,
                                              result)

liquidate_position(acc) ==
    IF acc.base_position = 0 THEN LiquidateErr(acc, FALSE, "NoOpenPosition")
    ELSE LET settled ==
                 settle_funding_inner(acc.base_position, acc.collateral,
                                      acc.last_funding,
                                      acc.cumulative_funding)
         IN  IF ~settled.ok
             THEN LiquidateErr(acc, FALSE, "CalculationOverflow")
             ELSE LET liquidatable ==
                          is_liquidatable(settled.new_collateral,
                                          acc.base_position, acc.entry_price,
                                          acc.oracle_price,
                                          acc.maintenance_margin_bps)
                  IN  IF ~liquidatable.ok
                      THEN LiquidateErr(acc, FALSE, liquidatable.err)
                      ELSE IF ~liquidatable.v
                      THEN LiquidateErr(acc, FALSE, "NotLiquidatable")
                      ELSE liquidate_close(acc, settled.new_collateral,
                                           settled.new_checkpoint)

----------------------------------------------------------------------------
\* The persisted position, fed by the engine's results

NoCall == [fn |-> "none"]

\* No position account or market is involved (single engine calls)
NoAccount == [collateral |-> 0]

Flat == PositionState(0, 0, 0)

\* Which case of the engine a trade on `state` falls in
TradeKind(state, delta) ==
    IF delta = 0 THEN "noop"
    ELSE IF state.base_position = 0 THEN "open"
    ELSE IF (state.base_position > 0) = (delta > 0) THEN "increase"
    ELSE IF Abs(delta) < Abs(state.base_position) THEN "reduce"
    ELSE IF Abs(delta) = Abs(state.base_position) THEN "close"
    ELSE "flip"

\* Progress through open -> increase -> close at the entry price
NextTrail(state, delta, price) ==
    LET k == TradeKind(state, delta)
    IN  IF trail = "flat" /\ k = "open" THEN "opened"
        ELSE IF trail = "opened" /\ k = "increase" THEN "increased"
        ELSE IF trail = "increased" /\ k = "close" /\ price = state.entry_price
        THEN "closed_at_entry"
        ELSE IF k = "noop" THEN trail
        ELSE "other"

\* The engine uses checked_* methods only: the profile does not reach it.
Init ==
    /\ pos = Flat
    /\ call = NoCall
    /\ pnl_sum = 0
    /\ trail = "flat"
    /\ overflow_checks = TRUE
    /\ account = NoAccount

\* A successful trade: the caller stores the TradeResult as the next state.
Trade ==
    \E delta \in I64, price \in I64 :
        \E r \in {apply_trade_to_position(pos, delta, price)} :
            /\ r.ok
            /\ pos' = PositionState(r.new_base_position, r.new_entry_price,
                                    r.new_realized_pnl)
            /\ pnl_sum' = pnl_sum + r.pnl_delta
            /\ trail' = NextTrail(pos, delta, price)
            /\ UNCHANGED <<call, overflow_checks, account>>

Next == Trade

Spec == Init /\ [][Next]_vars

----------------------------------------------------------------------------
\* Single engine calls on arbitrary snapshots (the engine is a pure function)

\* realized_pnl values a snapshot is drawn with: zero, both signs, both extremes
RealizedSamples == {I128_MIN, -1, 0, 1, I128_MAX}

InitCall ==
    /\ pos \in {PositionState(b, e, r) :
                    b \in I64, e \in I64, r \in RealizedSamples}
    /\ call = NoCall
    /\ pnl_sum = 0
    /\ trail = "flat"
    /\ overflow_checks = TRUE
    /\ account = NoAccount

CallApplyTrade ==
    /\ call.fn = "none"
    /\ \E delta \in I64, price \in I64 :
           call' = [fn |-> "apply_trade_to_position", state |-> pos,
                    delta |-> delta, price |-> price,
                    res |-> apply_trade_to_position(pos, delta, price)]
    /\ UNCHANGED <<pos, pnl_sum, trail, overflow_checks, account>>

CallUnrealizedPnl ==
    /\ call.fn = "none"
    /\ \E mark_price \in I64 :
           call' = [fn |-> "unrealized_pnl", state |-> pos,
                    delta |-> 0, price |-> mark_price,
                    res |-> unrealized_pnl(pos.base_position, pos.entry_price,
                                           mark_price)]
    /\ UNCHANGED <<pos, pnl_sum, trail, overflow_checks, account>>

NextCall == CallApplyTrade \/ CallUnrealizedPnl

SpecCall == InitCall /\ [][NextCall]_vars

----------------------------------------------------------------------------
\* Single kernel calls.  The first operand ranges over its whole type; the
\* second and the divisor over the values next to zero, to the half-word
\* boundary, to the sign boundary and to the top of the word.

UnsignedOperands ==
    (0 .. HalfWord + 1) \cup (I128_MAX - 1 .. I128_MAX + 2)
        \cup (U128_MAX - 3 .. U128_MAX)

SignedOperands ==
    (I128_MIN .. I128_MIN + 2) \cup (-(HalfWord + 1) .. HalfWord + 1)
        \cup (I128_MAX - 2 .. I128_MAX)

KernelCall(fn, a, b, d, res) ==
    [fn |-> fn, a |-> a, b |-> b, d |-> d, res |-> res]

InitKernel ==
    /\ pos = Flat
    /\ call = NoCall
    /\ pnl_sum = 0
    /\ trail = "flat"
    /\ overflow_checks \in BOOLEAN
    /\ account = NoAccount

CallMulDiv ==
    /\ call.fn = "none"
    /\ \E a \in U128, b \in UnsignedOperands, denom \in UnsignedOperands :
           call' = KernelCall("mul_div", a, b, denom, mul_div(a, b, denom))
    /\ UNCHANGED <<pos, pnl_sum, trail, overflow_checks, account>>

\* The 256-bit path on its own, as wide_mul_div_with_rem_u128 enters it
CallWidePath ==
    /\ call.fn = "none"
    /\ \E a \in U128, b \in UnsignedOperands, d \in UnsignedOperands :
           call' = KernelCall("wide_mul_then_div", a, b, d,
                              wide_mul_then_div(a, b, d))
    /\ UNCHANGED <<pos, pnl_sum, trail, overflow_checks, account>>

CallSignedMulDiv ==
    /\ call.fn = "none"
    /\ \E a \in I128, b \in SignedOperands, denom \in SignedOperands :
           call' = KernelCall("signed_mul_div", a, b, denom,
                              signed_mul_div(a, b, denom))
    /\ UNCHANGED <<pos, pnl_sum, trail, overflow_checks, account>>

CallSignedMulDivFloor ==
    /\ call.fn = "none"
    /\ \E a \in I128, b \in SignedOperands, denom \in SignedOperands :
           call' = KernelCall("signed_mul_div_floor", a, b, denom,
                              signed_mul_div_floor(a, b, denom))
    /\ UNCHANGED <<pos, pnl_sum, trail, overflow_checks, account>>

CallSignedMulDivCeil ==
    /\ call.fn = "none"
    /\ \E a \in I128, b \in SignedOperands, denom \in SignedOperands :
           call' = KernelCall("signed_mul_div_ceil", a, b, denom,
                              signed_mul_div_ceil(a, b, denom))
    /\ UNCHANGED <<pos, pnl_sum, trail, overflow_checks, account>>

CallFloorDiv ==
    /\ call.fn = "none"
    /\ \E a \in I128, b \in I128 :
           call' = KernelCall("floor_div", a, b, 1, floor_div(a, b))
    /\ UNCHANGED <<pos, pnl_sum, trail, overflow_checks, account>>

CallCeilDiv ==
    /\ call.fn = "none"
    /\ \E a \in I128, b \in I128 :
           call' = KernelCall("ceil_div", a, b, 1, ceil_div(a, b))
    /\ UNCHANGED <<pos, pnl_sum, trail, overflow_checks, account>>

NextKernel ==
    \/ CallMulDiv
    \/ CallWidePath
    \/ CallSignedMulDiv
    \/ CallSignedMulDivFloor
    \/ CallSignedMulDivCeil
    \/ CallFloorDiv
    \/ CallCeilDiv

SpecKernel == InitKernel /\ [][NextKernel]_vars

----------------------------------------------------------------------------
\* Single margin and equity calls

MarginCall(fn, collateral, realized_pnl, base, entry, mark, funding_owed, bps, res) ==
    [fn |-> fn, collateral |-> collateral, realized_pnl |-> realized_pnl,
     base |-> base, entry |-> entry, mark |-> mark,
     funding_owed |-> funding_owed, bps |-> bps, res |-> res]

\* A call on two i128 operands and at most one u16 parameter
AmountCall(fn, x, y, res) == [fn |-> fn, x |-> x, y |-> y, res |-> res]

InitMargin ==
    /\ pos = Flat
    /\ call = NoCall
    /\ pnl_sum = 0
    /\ trail = "flat"
    /\ overflow_checks \in BOOLEAN
    /\ account = NoAccount

CallInitialMargin ==
    /\ call.fn = "none"
    /\ \E notional \in I128, leverage \in U16 :
           call' = AmountCall("initial_margin", notional, leverage,
                              initial_margin(notional, leverage))
    /\ UNCHANGED <<pos, pnl_sum, trail, overflow_checks, account>>

CallRequiredMarginScaled ==
    /\ call.fn = "none"
    /\ \E notional \in I128, leverage \in U16 :
           call' = AmountCall("required_margin_scaled", notional, leverage,
                              required_margin_scaled(notional, leverage))
    /\ UNCHANGED <<pos, pnl_sum, trail, overflow_checks, account>>

CallMaintenanceMargin ==
    /\ call.fn = "none"
    /\ \E notional \in I128, mm_bps \in U16 :
           call' = AmountCall("maintenance_margin", notional, mm_bps,
                              maintenance_margin(notional, mm_bps))
    /\ UNCHANGED <<pos, pnl_sum, trail, overflow_checks, account>>

CallCanIncreasePosition ==
    /\ call.fn = "none"
    /\ \E equity_after \in I128, im \in I128 :
           call' = AmountCall("can_increase_position", equity_after, im,
                              can_increase_position(equity_after, im))
    /\ UNCHANGED <<pos, pnl_sum, trail, overflow_checks, account>>

CallIsLiquidatableCheck ==
    /\ call.fn = "none"
    /\ \E equity \in I128, mm \in I128 :
           call' = AmountCall("is_liquidatable_check", equity, mm,
                              is_liquidatable_check(equity, mm))
    /\ UNCHANGED <<pos, pnl_sum, trail, overflow_checks, account>>

CallComputeEquity ==
    /\ call.fn = "none"
    /\ \E collateral \in U64, realized_pnl \in RealizedSamples,
          base \in I64, entry \in I64, mark \in I64,
          funding_owed \in RealizedSamples :
           call' = MarginCall("compute_equity", collateral, realized_pnl,
                              base, entry, mark, funding_owed, 0,
                              compute_equity(collateral, realized_pnl, base,
                                             entry, mark, funding_owed))
    /\ UNCHANGED <<pos, pnl_sum, trail, overflow_checks, account>>

CallPositionEquity ==
    /\ call.fn = "none"
    /\ \E collateral \in U64, base \in I64, entry \in I64, mark \in I64 :
           call' = MarginCall("position_equity", collateral, 0, base, entry,
                              mark, 0, 0,
                              position_equity(collateral, base, entry, mark))
    /\ UNCHANGED <<pos, pnl_sum, trail, overflow_checks, account>>

CallIsLiquidatable ==
    /\ call.fn = "none"
    /\ \E collateral \in U64, base \in I64, entry \in I64, mark \in I64,
          bps \in U16 :
           call' = MarginCall("is_liquidatable", collateral, 0, base, entry,
                              mark, 0, bps,
                              is_liquidatable(collateral, base, entry, mark,
                                              bps))
    /\ UNCHANGED <<pos, pnl_sum, trail, overflow_checks, account>>

CallComputeLiquidationCloseSize ==
    /\ call.fn = "none"
    /\ \E collateral \in U64, base \in I64, entry \in I64, mark \in I64,
          bps \in U16 :
           call' = MarginCall("compute_liquidation_close_size", collateral,
                              0, base, entry, mark, 0, bps,
                              compute_liquidation_close_size(collateral, base,
                                                             entry, mark,
                                                             bps))
    /\ UNCHANGED <<pos, pnl_sum, trail, overflow_checks, account>>

NextMargin ==
    \/ CallInitialMargin
    \/ CallRequiredMarginScaled
    \/ CallMaintenanceMargin
    \/ CallCanIncreasePosition
    \/ CallIsLiquidatableCheck
    \/ CallComputeEquity
    \/ CallPositionEquity
    \/ CallIsLiquidatable
    \/ CallComputeLiquidationCloseSize

SpecMargin == InitMargin /\ [][NextMargin]_vars

----------------------------------------------------------------------------
\* Funding settlement of one position account against its market: the
\* prefix shared by open_position, close_position and liquidate_position.
\* Each run follows one position through at most MaxSettlements settlements
\* and MaxFundingUpdates moves of the market's cumulative funding index.

MaxSettlements == 2

MaxFundingUpdates == 1

\* Cumulative funding indices at which the position was opened
FundingSamples == {I128_MIN, -1, 0, 1, I128_MAX}

FundingAccount(base_position, collateral, last_funding, cumulative_funding, settlements, funding_updates, fresh) ==
    [base_position |-> base_position, collateral |-> collateral,
     last_funding |-> last_funding,
     cumulative_funding |-> cumulative_funding,
     settlements |-> settlements, funding_updates |-> funding_updates,
     fresh |-> fresh]

\* A call of settle_funding_inner; `again` says that the position's
\* previous settlement succeeded and the index has not moved since
SettleCall(base, collateral, last, market, again, res) ==
    [fn |-> "settle_funding_inner", base |-> base, collateral |-> collateral,
     last |-> last, market |-> market, again |-> again, res |-> res]

\* A position holds the market's index of the moment it was opened
InitFunding ==
    /\ pos = Flat
    /\ call = NoCall
    /\ pnl_sum = 0
    /\ trail = "flat"
    /\ overflow_checks \in BOOLEAN
    /\ \E base \in I64, collateral \in U64, index \in FundingSamples :
           account = FundingAccount(base, collateral, index, index, 0, 0,
                                    FALSE)

\* The handler settles funding and persists collateral and checkpoint; an
\* error aborts the instruction and leaves the account as it was.
SettleFunding ==
    /\ account.settlements < MaxSettlements
    /\ \E r \in {settle_funding_inner(account.base_position,
                                      account.collateral,
                                      account.last_funding,
                                      account.cumulative_funding)} :
           /\ call' = SettleCall(account.base_position, account.collateral,
                                 account.last_funding,
                                 account.cumulative_funding, account.fresh,
                                 r)
           /\ account' =
                  IF r.ok
                  THEN [account EXCEPT !.collateral = r.new_collateral,
                                       !.last_funding = r.new_checkpoint,
                                       !.settlements = @ + 1,
                                       !.fresh = TRUE]
                  ELSE [account EXCEPT !.settlements = @ + 1]
    /\ UNCHANGED <<pos, pnl_sum, trail, overflow_checks>>

\* update_funding adds the period's increment to the market's index
UpdateFunding ==
    /\ account.funding_updates < MaxFundingUpdates
    /\ \E funding_increment \in I128 :
           /\ checked_add_signed(account.cumulative_funding,
                                 funding_increment).ok
           /\ account' =
                  [account EXCEPT !.cumulative_funding =
                                      @ + funding_increment,
                                  !.funding_updates = @ + 1,
                                  !.fresh = FALSE]
    /\ call' = NoCall
    /\ UNCHANGED <<pos, pnl_sum, trail, overflow_checks>>

NextFunding ==
    \/ SettleFunding
    \/ UpdateFunding

SpecFunding == InitFunding /\ [][NextFunding]_vars

----------------------------------------------------------------------------
\* Liquidation of one position account at a fixed oracle price: repeated
\* calls of liquidate_position until the position is flat or no longer
\* liquidatable.

LiquidationAccount(base_position, entry_price, collateral, oracle_price, maintenance_margin_bps, open_interest) ==
    [base_position |-> base_position, entry_price |-> entry_price,
     realized_pnl |-> 0, collateral |-> collateral,
     last_funding |-> 0, cumulative_funding |-> 0,
     oracle_price |-> oracle_price,
     maintenance_margin_bps |-> maintenance_margin_bps,
     insurance_balance |-> 0, emergency |-> FALSE,
     collateral_vault |-> collateral, user_collateral |-> 0,
     open_interest |-> open_interest]

\* One call of liquidate_position that passed the eligibility check: the
\* account before it, its outcome, the size of the position when the first
\* call was made and the number of calls so far
LiquidateCall(before, first_base, steps, res) ==
    [fn |-> "liquidate_position", before |-> before,
     first_base |-> first_base, steps |-> steps, res |-> res]

\* An open position with settled funding in a market of its own
InitLiquidation ==
    /\ pos = Flat
    /\ call = NoCall
    /\ pnl_sum = 0
    /\ trail = "flat"
    /\ overflow_checks \in BOOLEAN
    /\ \E base \in I64 \ {0}, entry \in I64, collateral \in U64,
          price \in I64, bps \in U16 :
           /\ notional_value(base, entry).ok
           /\ account = LiquidationAccount(base, entry, collateral, price,
                                           bps,
                                           notional_value(base, entry).v)

\* A failed call aborts the instruction and leaves the account as it was;
\* repeating it would fail in the same way, so a run ends there.
Liquidate ==
    /\ \E r \in {liquidate_position(account)} :
           /\ r.eligible
           /\ account' = r.account
           /\ call' = LiquidateCall(
                          account,
                          IF call.fn = "none" THEN account.base_position
                          ELSE call.first_base,
                          IF call.fn = "none" THEN 1 ELSE call.steps + 1,
                          [ok |-> r.ok, err |-> r.err,
                           liq_fee |-> r.liq_fee,
                           insurance_penalty |-> r.insurance_penalty])
    /\ call.fn = "liquidate_position" => call.res.ok
    /\ UNCHANGED <<pos, pnl_sum, trail, overflow_checks>>

NextLiquidation == Liquidate

SpecLiquidation == InitLiquidation /\ [][NextLiquidation]_vars

----------------------------------------------------------------------------
\* Properties

\* n / m truncated toward zero, m > 0
TruncDiv(n, m) == Sign(n) * (Abs(n) \div m)

Applied == call.fn = "apply_trade_to_position"

AppliedOk == Applied /\ call.res.ok

CallKind == TradeKind(call.state, call.delta)

\* C1: after any sequence of successful trades from flat, the entry price is
\* zero exactly when the position is flat.
C1_EntryZeroIffFlat ==
    (pos.entry_price = 0) <=> (pos.base_position = 0)

\* A step that opens from flat or grows the position in its direction
OpenOrIncreaseStep ==
    \/ pos.base_position = 0 /\ pos'.base_position # 0
    \/ /\ pos.base_position # 0
       /\ Sign(pos'.base_position) = Sign(pos.base_position)
       /\ Abs(pos'.base_position) > Abs(pos.base_position)

\* C2: every successful trade moves realized_pnl by exactly the pnl_delta it
\* returns, an open or a same-direction increase returns pnl_delta 0 and
\* leaves realized_pnl alone, and so realized_pnl is always the initial value
\* (zero) plus the sum of the returned pnl_delta values.
C2_RealizedMovesByPnlDelta ==
    /\ [][/\ pos'.realized_pnl = pos.realized_pnl + (pnl_sum' - pnl_sum)
          /\ OpenOrIncreaseStep =>
                 /\ pnl_sum' = pnl_sum
                 /\ pos'.realized_pnl = pos.realized_pnl]_vars
    /\ [](pos.realized_pnl = pnl_sum)

C2_Witness ==
    /\ pnl_sum < 0
    /\ pos.base_position # 0
    /\ trail = "other"

\* C3: an opposite-direction trade on an open position realizes
\* min(|old_base|, |delta|) * (trade_price - entry_price) * sign(old_base),
\* whether it reduces, closes or flips the position.
C3_OppositeTradePnl ==
    (AppliedOk /\ CallKind \in {"reduce", "close", "flip"}) =>
        call.res.pnl_delta =
            Min(Abs(call.state.base_position), Abs(call.delta))
                * (call.price - call.state.entry_price)
                * Sign(call.state.base_position)

C3_Witness ==
    /\ AppliedOk
    /\ CallKind = "flip"
    /\ call.state.base_position < 0
    /\ call.res.pnl_delta > 0

\* The flip done in two trades: close everything, then open the remainder
FlipInTwoTrades(state, delta, price) ==
    LET c1 == apply_trade_to_position(state, -state.base_position, price)
        s1 == PositionState(c1.new_base_position, c1.new_entry_price,
                            c1.new_realized_pnl)
        c2 == apply_trade_to_position(s1, state.base_position + delta, price)
    IN  IF ~c1.ok THEN TradeErr
        ELSE IF ~c2.ok THEN TradeErr
        ELSE TradeOk(c2.new_base_position, c2.new_entry_price,
                     c2.new_realized_pnl, c1.pnl_delta + c2.pnl_delta)

\* C4: a flip returns old_base + delta (of the opposite sign) at the trade
\* price, realizes the PnL of the whole old position against its entry price,
\* and equals a full close followed by opening the remainder from flat, both
\* at the trade price.
C4_FlipIsCloseThenOpen ==
    (Applied /\ CallKind = "flip") =>
        /\ call.res = FlipInTwoTrades(call.state, call.delta, call.price)
        /\ call.res.ok =>
               /\ call.res.new_base_position =
                      call.state.base_position + call.delta
               /\ Sign(call.res.new_base_position) =
                      -Sign(call.state.base_position)
               /\ call.res.new_entry_price = call.price
               /\ call.res.pnl_delta =
                      Abs(call.state.base_position)
                          * (call.price - call.state.entry_price)
                          * Sign(call.state.base_position)

C4_Witness ==
    /\ AppliedOk
    /\ CallKind = "flip"
    /\ call.state.base_position > 0
    /\ call.res.new_base_position < 0
    /\ call.res.pnl_delta # 0
    /\ call.state.entry_price # call.price

\* C5: a same-direction increase returns old_base + delta, the
\* notional-weighted average entry price truncated toward zero, and no PnL.
C5_IncreaseAveragesEntry ==
    (AppliedOk /\ CallKind = "increase") =>
        /\ call.res.new_base_position = call.state.base_position + call.delta
        /\ call.res.new_entry_price =
               TruncDiv(Abs(call.state.base_position) * call.state.entry_price
                            + Abs(call.delta) * call.price,
                        Abs(call.state.base_position + call.delta))
        /\ call.res.pnl_delta = 0

C5_Witness ==
    /\ AppliedOk
    /\ CallKind = "increase"
    /\ call.state.entry_price # call.price
    /\ (Abs(call.state.base_position) * call.state.entry_price
            + Abs(call.delta) * call.price)
           % Abs(call.state.base_position + call.delta) # 0

\* C6: a zero-size trade succeeds on every snapshot at every price, returns
\* the snapshot's fields with pnl_delta 0, and does so again when repeated.
C6_ZeroTradeIsNoop ==
    (Applied /\ call.delta = 0) =>
        /\ call.res =
               TradeOk(call.state.base_position, call.state.entry_price,
                       call.state.realized_pnl, 0)
        /\ apply_trade_to_position(
               PositionState(call.res.new_base_position,
                             call.res.new_entry_price,
                             call.res.new_realized_pnl),
               0, call.price) = call.res

C6_Witness ==
    /\ Applied
    /\ call.delta = 0
    /\ call.state.base_position # 0
    /\ call.price # call.state.entry_price
    /\ call.state.realized_pnl # 0

\* C7: open from flat, increase in the same direction, then close the whole
\* position at the resulting entry price: the three pnl_delta values sum to
\* zero (the close realizes nothing) and the position is flat at entry 0.
C7_CloseAtEntryRealizesNothing ==
    trail = "closed_at_entry" =>
        /\ pnl_sum = 0
        /\ pos = Flat

C7_Witness == trail = "closed_at_entry"

\* C8: a partial reduction returns old_base + delta, of the same sign and of
\* strictly smaller magnitude, and leaves the entry price unchanged.
C8_ReduceKeepsEntry ==
    (AppliedOk /\ CallKind = "reduce") =>
        /\ call.res.new_base_position = call.state.base_position + call.delta
        /\ Sign(call.res.new_base_position) = Sign(call.state.base_position)
        /\ Abs(call.res.new_base_position) < Abs(call.state.base_position)
        /\ call.res.new_entry_price = call.state.entry_price

C8_Witness ==
    /\ AppliedOk
    /\ CallKind = "reduce"
    /\ call.price # call.state.entry_price

\* C9: a non-zero trade on a flat snapshot returns the delta at the trade
\* price with pnl_delta 0 and the realized PnL untouched, whatever entry
\* price the snapshot carried.
C9_OpenFromFlat ==
    (Applied /\ call.state.base_position = 0 /\ call.delta # 0) =>
        call.res = TradeOk(call.delta, call.price, call.state.realized_pnl, 0)

C9_Witness ==
    /\ Applied
    /\ call.state.base_position = 0
    /\ call.delta # 0
    /\ call.state.entry_price # 0
    /\ call.price # call.state.entry_price
    /\ call.state.realized_pnl # 0

\* The short scenario that mirrors a long one: base negated, price reflected
\* around the entry price
MirrorPrice == 2 * call.state.entry_price - call.price

MirrorState ==
    PositionState(-call.state.base_position, call.state.entry_price,
                  call.state.realized_pnl)

LongClose ==
    /\ Applied
    /\ call.state.base_position > 0
    /\ call.delta < 0
    /\ -call.delta \in I64
    /\ MirrorPrice \in I64

LongMark ==
    /\ call.fn = "unrealized_pnl"
    /\ call.state.base_position > 0
    /\ MirrorPrice \in I64

MirrorClose == apply_trade_to_position(MirrorState, -call.delta, MirrorPrice)

MirrorMark ==
    unrealized_pnl(-call.state.base_position, call.state.entry_price,
                   MirrorPrice)

\* C10 (as stated): the mirrored short scenario produces the negated PnL,
\* for the pnl_delta of a closing trade and for unrealized_pnl.
C10_MirrorNegatesPnl ==
    /\ (LongClose /\ call.res.ok /\ MirrorClose.ok) =>
           MirrorClose.pnl_delta = -call.res.pnl_delta
    /\ (LongMark /\ call.res.ok /\ MirrorMark.ok) =>
           MirrorMark.v = -call.res.v

\* C10 (amended): the mirrored short scenario succeeds exactly when the long
\* one does and produces the same PnL, for the pnl_delta of a closing trade
\* and for unrealized_pnl.
C10_MirrorKeepsPnl ==
    /\ LongClose =>
           /\ MirrorClose.ok = call.res.ok
           /\ MirrorClose.pnl_delta = call.res.pnl_delta
    /\ LongMark => MirrorMark = call.res

C10_Witness ==
    /\ LongClose
    /\ call.res.ok
    /\ call.res.pnl_delta # 0
    /\ call.price # call.state.entry_price

----------------------------------------------------------------------------
\* Properties of the margin and equity calls

IsLiquidatableCall == call.fn = "is_liquidatable"

\* A move of the mark price from p1 to p2 against the holder of `base`
Adverse(base, p1, p2) ==
    \/ base > 0 /\ p2 <= p1
    \/ base < 0 /\ p2 >= p1

EquityAt(mark) ==
    position_equity(call.collateral, call.base, call.entry, mark)

LiquidatableAt(mark) ==
    is_liquidatable(call.collateral, call.base, call.entry, mark, call.bps)

\* C11: liquidation monotonicity.  For fixed collateral, base position,
\* entry price and any maintenance_margin_bps, an adverse move of the mark
\* price from p1 to p2 never raises position_equity, and a position that
\* is_liquidatable at p1 is_liquidatable at p2.
C11_AdverseMoveKeepsLiquidatable ==
    IsLiquidatableCall =>
        \A p2 \in I64 :
            Adverse(call.base, call.mark, p2) =>
                /\ (EquityAt(call.mark).ok /\ EquityAt(p2).ok)
                       => EquityAt(p2).v <= EquityAt(call.mark).v
                /\ (call.res.ok /\ call.res.v)
                       => (LiquidatableAt(p2).ok /\ LiquidatableAt(p2).v)

\* Exact quotients: the greatest integer <= n / d and the least integer
\* >= n / d, for d # 0
FloorQ(n, d) == IF d > 0 THEN n \div d ELSE (-n) \div (-d)

CeilQ(n, d) == -FloorQ(-n, d)

\* The exact equity and maintenance margin of the snapshot of a call
ExactEquity ==
    call.collateral + call.realized_pnl
        + call.base * (call.mark - call.entry) - call.funding_owed

ExactMaintenance ==
    CeilQ(Abs(call.base) * Abs(call.mark) * call.bps, BPS_DENOMINATOR)

\* C12: boundary equality.  is_liquidatable_check is true exactly when
\* equity < mm and can_increase_position exactly when equity_after >= im;
\* is_liquidatable on an open position answers with the same strict
\* comparison of the exact equity and the ceil-rounded maintenance margin,
\* so it is false when the two are equal.
C12_BoundaryStrictness ==
    /\ call.fn = "is_liquidatable_check" => (call.res <=> call.x < call.y)
    /\ call.fn = "can_increase_position" => (call.res <=> call.x >= call.y)
    /\ (IsLiquidatableCall /\ call.res.ok /\ call.base # 0)
           => (call.res.v <=> ExactEquity < ExactMaintenance)

\* is_liquidatable answered on a position whose equity equals a non-zero
\* maintenance margin.
C12_Witness ==
    /\ IsLiquidatableCall
    /\ call.res.ok
    /\ call.base # 0
    /\ ExactMaintenance > 0
    /\ ExactEquity = ExactMaintenance
    /\ ~call.res.v

----------------------------------------------------------------------------
\* Properties of the kernel calls

\* The exact product of the operands of a kernel call
ExactProduct == call.a * call.b

\* C13: for all unsigned a, b, denom, mul_div returns floor(a * b / denom)
\* of the exact product whenever denom > 0 and that quotient fits u128,
\* also when a * b does not; otherwise (denom = 0 or the quotient does not
\* fit) it returns CalculationOverflow.
C13_MulDivIsExactFloor ==
    call.fn = "mul_div" =>
        IF call.d > 0 /\ ExactProduct \div call.d <= U128_MAX
        THEN call.res = Ok(ExactProduct \div call.d)
        ELSE call.res = ErrOverflow

\* C14: for all a, b and d > 0, also d in the upper half of the word range,
\* with floor(a * b / d) fitting u128, full_mul_u128 followed by
\* wide_div_u256 returns (floor(a * b / d), a * b mod d); where the direct
\* checked multiplication is computable the two paths return the same pair.
C14_WidePathIsExact ==
    (/\ call.fn = "wide_mul_then_div"
     /\ call.d > 0
     /\ ExactProduct \div call.d <= U128_MAX)
        => /\ call.res = WideOk(ExactProduct \div call.d,
                                ExactProduct % call.d)
           /\ u128_checked_mul(call.a, call.b).ok
                  => call.res = WideOk(u128_checked_mul(call.a, call.b).v
                                           \div call.d,
                                       u128_checked_mul(call.a, call.b).v
                                           % call.d)

\* How many of the operands of a kernel call are negative
NegativeOperands ==
    (IF call.a < 0 THEN 1 ELSE 0) + (IF call.b < 0 THEN 1 ELSE 0)
        + (IF call.d < 0 THEN 1 ELSE 0)

\* floor(|a| * |b| / |denom|), denom # 0
ExactMagnitude == (Abs(call.a) * Abs(call.b)) \div Abs(call.d)

\* a * b / denom truncated toward zero, denom # 0
ExactTruncated ==
    IF NegativeOperands % 2 = 1 THEN -ExactMagnitude ELSE ExactMagnitude

IsFloorOf(v, a, b) ==
    IF b > 0 THEN v * b <= a /\ a < (v + 1) * b
    ELSE v * b >= a /\ a > (v + 1) * b

IsCeilOf(v, a, b) ==
    IF b > 0 THEN (v - 1) * b < a /\ a <= v * b
    ELSE (v - 1) * b > a /\ a >= v * b

\* C16: rounding laws.  For all signed a and b # 0, in all four sign
\* combinations, floor_div(a, b) is the greatest integer <= a / b and
\* ceil_div(a, b) the least integer >= a / b; the two are equal when b
\* divides a and differ by exactly 1 otherwise.
C16_RoundingLaws ==
    (call.fn \in {"floor_div", "ceil_div"} /\ call.b # 0) =>
        /\ call.res.ok
        /\ call.fn = "floor_div" => IsFloorOf(call.res.v, call.a, call.b)
        /\ call.fn = "ceil_div" => IsCeilOf(call.res.v, call.a, call.b)
        /\ floor_div(call.a, call.b).ok
        /\ ceil_div(call.a, call.b).ok
        /\ ceil_div(call.a, call.b).v - floor_div(call.a, call.b).v
               = (IF call.a % Abs(call.b) = 0 THEN 0 ELSE 1)

\* C17: for all signed a, b and denom # 0 whose result is representable,
\* signed_mul_div_floor returns floor(a * b / denom) and signed_mul_div_ceil
\* returns ceil(a * b / denom); they agree with floor_div(a * b, denom) and
\* ceil_div(a * b, denom) whenever a * b fits i128; and
\* signed_mul_div_floor <= signed_mul_div <= signed_mul_div_ceil, floor and
\* ceil at most 1 apart.
C17_FloorCeilOfExactProduct ==
    (call.fn \in {"signed_mul_div_floor", "signed_mul_div_ceil"}
        /\ call.d # 0) =>
        /\ (call.fn = "signed_mul_div_floor"
               /\ FloorQ(ExactProduct, call.d) \in I128)
               => /\ call.res = Ok(FloorQ(ExactProduct, call.d))
                  /\ ExactProduct \in I128
                         => call.res = floor_div(ExactProduct, call.d)
        /\ (call.fn = "signed_mul_div_ceil"
               /\ CeilQ(ExactProduct, call.d) \in I128)
               => /\ call.res = Ok(CeilQ(ExactProduct, call.d))
                  /\ ExactProduct \in I128
                         => call.res = ceil_div(ExactProduct, call.d)
        /\ (/\ signed_mul_div_floor(call.a, call.b, call.d).ok
            /\ signed_mul_div(call.a, call.b, call.d).ok
            /\ signed_mul_div_ceil(call.a, call.b, call.d).ok)
               => /\ signed_mul_div_floor(call.a, call.b, call.d).v
                         <= signed_mul_div(call.a, call.b, call.d).v
                  /\ signed_mul_div(call.a, call.b, call.d).v
                         <= signed_mul_div_ceil(call.a, call.b, call.d).v
                  /\ signed_mul_div_ceil(call.a, call.b, call.d).v
                         - signed_mul_div_floor(call.a, call.b, call.d).v
                         <= 1

----------------------------------------------------------------------------
\* Properties of the margin requirements

\* C18: for notional >= 0 and leverage > 0, initial_margin returns the
\* least integer m with m * leverage >= notional and required_margin_scaled
\* returns the same; with leverage = 0 both return InvalidLeverage.
C18_InitialMarginIsCeil ==
    call.fn \in {"initial_margin", "required_margin_scaled"} =>
        /\ call.y = 0 => call.res = ErrLeverage
        /\ (call.y > 0 /\ call.x >= 0)
               => /\ call.res.ok
                  /\ call.res.v * call.y >= call.x
                  /\ (call.res.v - 1) * call.y < call.x
                  /\ initial_margin(call.x, call.y) = call.res
                  /\ required_margin_scaled(call.x, call.y) = call.res

\* initial_margin rounded a positive notional up.
C18_Witness ==
    /\ call.fn = "initial_margin"
    /\ call.x > 0
    /\ call.y > 1
    /\ call.x % call.y # 0
    /\ call.res.ok
    /\ call.res.v * call.y > call.x

\* C19: for notional >= 0 and any mm_bps, maintenance_margin returns the
\* least integer m with m * 10_000 >= notional * mm_bps, or
\* CalculationOverflow when notional * mm_bps is not representable.
C19_MaintenanceMarginIsCeil ==
    (call.fn = "maintenance_margin" /\ call.x >= 0) =>
        IF call.x * call.y \in I128
        THEN /\ call.res.ok
             /\ call.res.v * BPS_DENOMINATOR >= call.x * call.y
             /\ (call.res.v - 1) * BPS_DENOMINATOR < call.x * call.y
        ELSE call.res = ErrOverflow

\* maintenance_margin rounded a requirement above one unit up.
C19_Witness ==
    /\ call.fn = "maintenance_margin"
    /\ call.x > 0
    /\ call.x * call.y > BPS_DENOMINATOR
    /\ (call.x * call.y) % BPS_DENOMINATOR # 0
    /\ call.res.ok
    /\ call.res.v * BPS_DENOMINATOR > call.x * call.y

\* The running sums of compute_equity
EquityAfterRealized == call.collateral + call.realized_pnl

EquityAfterUnrealized ==
    EquityAfterRealized + call.base * (call.mark - call.entry)

\* C20: compute_equity returns collateral + realized_pnl
\* + base_position * (mark_price - entry_price) - funding_owed as a signed
\* value, the unrealized term being 0 when base_position = 0 whatever the
\* prices; it fails only when one of its running sums leaves i128.
\* position_equity is compute_equity with realized_pnl = 0 and
\* funding_owed = 0.
C20_EquityIsExactSum ==
    /\ call.fn = "compute_equity" =>
           /\ call.res.ok => call.res.v = ExactEquity
           /\ (call.res.ok /\ call.base = 0)
                  => call.res.v = call.collateral + call.realized_pnl
                                      - call.funding_owed
           /\ call.res.ok <=> /\ EquityAfterRealized \in I128
                              /\ EquityAfterUnrealized \in I128
                              /\ ExactEquity \in I128
    /\ call.fn = "position_equity" =>
           /\ call.res = compute_equity(call.collateral, 0, call.base,
                                        call.entry, call.mark, 0)
           /\ call.res.ok
                  => call.res.v = call.collateral
                                      + call.base * (call.mark - call.entry)

\* compute_equity with every component non-zero and a negative result.
C20_Witness ==
    /\ call.fn = "compute_equity"
    /\ call.collateral > 0
    /\ call.realized_pnl # 0
    /\ call.base # 0
    /\ call.mark # call.entry
    /\ call.funding_owed # 0
    /\ call.res.ok
    /\ call.res.v < 0


----------------------------------------------------------------------------
\* Liquidation close size (calls of compute_liquidation_close_size)

CloseSizeCall == call.fn = "compute_liquidation_close_size"

\* C21: a flat position has close size 0, and a non-flat position whose
\* equity collateral + base * (mark - entry) is zero or negative has close
\* size |base_position| (a full close).
C21_FullCloseWhenEquityNotPositive ==
    CloseSizeCall =>
        /\ call.base = 0 => call.res = Ok(0)
        /\ (call.base # 0 /\ ExactEquity <= 0)
               => call.res = Ok(Abs(call.base))


\* ceil(|mark| * mm_bps / 10_000): the maintenance margin of one base unit
ExactMarginPerUnit == CeilQ(Abs(call.mark) * call.bps, BPS_DENOMINATOR)

\* C22: for a non-flat position with equity > 0 below its maintenance
\* margin, a successful compute_liquidation_close_size returns
\* ceil((mm - equity) / ceil(|mark| * mm_bps / 10_000)) clamped to
\* |base_position| and floored at 1, a value in 1..|base_position|.
C22_PartialCloseSize ==
    (/\ CloseSizeCall
     /\ call.base # 0
     /\ ExactEquity > 0
     /\ ExactMaintenance > ExactEquity
     /\ call.res.ok)
        => /\ call.res.v \in 1..Abs(call.base)
           /\ call.res.v =
                  Max(1, Min(Abs(call.base),
                             CeilQ(ExactMaintenance - ExactEquity,
                                   ExactMarginPerUnit)))


----------------------------------------------------------------------------
\* Funding settlement (calls of settle_funding_inner)

SettleFundingCall == call.fn = "settle_funding_inner"

\* base_position * (market_index - last_index), exactly
ExactFundingDelta == call.base * (call.market - call.last)

\* C23: every successful settle_funding_inner returns funding_delta =
\* base_position * (market_index - last_index) and new_checkpoint =
\* market_index; a flat position keeps its collateral, has funding_delta 0
\* and still has its checkpoint advanced.
C23_FundingDeltaAndCheckpoint ==
    SettleFundingCall =>
        /\ call.res.ok =>
               /\ call.res.funding_delta = ExactFundingDelta
               /\ call.res.new_checkpoint = call.market
        /\ call.base = 0 =>
               call.res = SettleOk(call.collateral, call.market, 0)

C23_Witness ==
    /\ SettleFundingCall
    /\ call.res.ok
    /\ call.base # 0
    /\ call.res.funding_delta # 0
    /\ account.last_funding = call.market

\* C24: for a non-flat position a successful settlement returns
\* new_collateral = max(0, collateral - funding_delta), never negative; a
\* shortfall (collateral - funding_delta <= 0, funding_delta representable)
\* succeeds with 0, and a result above the u64 range is CalculationOverflow.
C24_CollateralClampedAtZero ==
    (SettleFundingCall /\ call.base # 0) =>
        /\ call.res.ok =>
               /\ call.res.new_collateral =
                      Max(0, call.collateral - ExactFundingDelta)
               /\ call.res.new_collateral >= 0
        /\ (/\ call.market - call.last \in I128
            /\ ExactFundingDelta \in I128
            /\ call.collateral - ExactFundingDelta \in I128
            /\ call.collateral - ExactFundingDelta <= 0)
               => call.res = SettleOk(0, call.market, ExactFundingDelta)
        /\ call.collateral - ExactFundingDelta > U64_MAX
               => call.res = SettleErr

C24_Witness ==
    /\ SettleFundingCall
    /\ call.base # 0
    /\ call.res.ok
    /\ call.collateral - ExactFundingDelta < 0
    /\ account.collateral = 0

\* C30: a second settlement at an unchanged market index, after the first
\* one's collateral and checkpoint were persisted, returns funding_delta 0,
\* the same collateral and the same checkpoint.
C30_SettlementIdempotent ==
    (SettleFundingCall /\ call.again) =>
        /\ call.res = SettleOk(call.collateral, call.market, 0)
        /\ call.last = call.market

C30_Witness ==
    /\ SettleFundingCall
    /\ call.again
    /\ call.base # 0
    /\ account.funding_updates = 1
    /\ call.res.ok


----------------------------------------------------------------------------
\* Totality of the engine's operations

TypedErrors == {"CalculationOverflow", "InvalidLeverage"}

\* C25: every call of the arithmetic kernel, on every representable input,
\* ends with a value or with one of the typed errors CalculationOverflow and
\* InvalidLeverage, never with a panic; and a value returned by mul_div,
\* floor_div or ceil_div is the exact quotient, never a wrapped one.
C25_ExactOrTypedError ==
    call.fn \in {"mul_div", "signed_mul_div", "signed_mul_div_floor",
                 "signed_mul_div_ceil", "floor_div", "ceil_div"} =>
        /\ call.res.ok \/ call.res.err \in TypedErrors
        /\ (call.fn = "mul_div" /\ call.res.ok)
               => call.res.v = ExactProduct \div call.d
        /\ (call.fn = "floor_div" /\ call.res.ok)
               => call.res.v = FloorQ(call.a, call.b)
        /\ (call.fn = "ceil_div" /\ call.res.ok)
               => call.res.v = CeilQ(call.a, call.b)


----------------------------------------------------------------------------
\* Equity across a trade, and the bounds of the averaged entry price

\* realized PnL plus unrealized PnL at mark p of a position (exact)
PnlAt(base_position, entry_price, realized_pnl, p) ==
    realized_pnl + base_position * (p - entry_price)

\* compute_equity at mark call.price on the state before / after the trade
EquityBeforeTrade(collateral) ==
    compute_equity(collateral, call.state.realized_pnl,
                   call.state.base_position, call.state.entry_price,
                   call.price, 0)

EquityAfterTrade(collateral) ==
    compute_equity(collateral, call.res.new_realized_pnl,
                   call.res.new_base_position, call.res.new_entry_price,
                   call.price, 0)

\* C28: equity conservation under closing trades.  For a successful reduce,
\* close or flip at price p, realized + unrealized PnL at mark p (hence
\* collateral + realized + unrealized) is the same before and after
\* apply_trade_to_position, and compute_equity at mark p, where it succeeds
\* on both states, returns the same value.
C28_ClosingTradeConservesEquity ==
    (AppliedOk /\ CallKind \in {"reduce", "close", "flip"}) =>
        /\ PnlAt(call.res.new_base_position, call.res.new_entry_price,
                 call.res.new_realized_pnl, call.price)
               = PnlAt(call.state.base_position, call.state.entry_price,
                       call.state.realized_pnl, call.price)
        /\ \A collateral \in U64 :
               (EquityBeforeTrade(collateral).ok
                    /\ EquityAfterTrade(collateral).ok)
                   => EquityAfterTrade(collateral)
                          = EquityBeforeTrade(collateral)

C28_Witness ==
    /\ AppliedOk
    /\ CallKind = "reduce"
    /\ call.res.pnl_delta # 0
    /\ call.state.realized_pnl # 0
    /\ EquityBeforeTrade(1).ok
    /\ EquityAfterTrade(1).ok

\* C29: entry price bounds.  After a successful same-direction increase with
\* non-negative old entry price and trade price, the new entry price lies
\* between the lower and the higher of the two (inclusive) and never exceeds
\* the exact size-weighted average.
C29_EntryPriceBounds ==
    (/\ AppliedOk
     /\ CallKind = "increase"
     /\ call.state.entry_price >= 0
     /\ call.price >= 0)
        => /\ call.res.new_entry_price
                  >= Min(call.state.entry_price, call.price)
           /\ call.res.new_entry_price
                  <= Max(call.state.entry_price, call.price)
           /\ call.res.new_entry_price * Abs(call.res.new_base_position)
                  <= Abs(call.state.base_position) * call.state.entry_price
                         + Abs(call.delta) * call.price

C29_Witness ==
    /\ AppliedOk
    /\ CallKind = "increase"
    /\ call.state.entry_price >= 0
    /\ call.price > call.state.entry_price
    /\ call.res.new_entry_price > call.state.entry_price
    /\ call.res.new_entry_price < call.price
    /\ call.res.new_entry_price * Abs(call.res.new_base_position)
           < Abs(call.state.base_position) * call.state.entry_price
                 + Abs(call.delta) * call.price


----------------------------------------------------------------------------
\* Liquidation (calls of liquidate_position that passed is_liquidatable)

LiquidateCalled == call.fn = "liquidate_position"

\* compute_liquidation_close_size on the account the call started from
CloseSizeBefore ==
    compute_liquidation_close_size(call.before.collateral,
                                   call.before.base_position,
                                   call.before.entry_price,
                                   call.before.oracle_price,
                                   call.before.maintenance_margin_bps)

\* position_equity of that account, exactly
EquityBefore ==
    call.before.collateral
        + call.before.base_position
              * (call.before.oracle_price - call.before.entry_price)

StillLiquidatable ==
    is_liquidatable(account.collateral, account.base_position,
                    account.entry_price, account.oracle_price,
                    account.maintenance_margin_bps)

\* C26: liquidation progress.  Whenever is_liquidatable returned true for a
\* position, compute_liquidation_close_size on the same inputs returns c
\* with 1 <= c <= |base_position|; a liquidation that closes c at the mark
\* price strictly decreases |base_position|, and a position is liquidated at
\* most |base_position| times.
C26_LiquidationProgress ==
    LiquidateCalled =>
        /\ CloseSizeBefore.ok
        /\ CloseSizeBefore.v >= 1
        /\ CloseSizeBefore.v <= Abs(call.before.base_position)
        /\ call.res.ok =>
               Abs(account.base_position) < Abs(call.before.base_position)
        /\ call.steps <= Abs(call.first_base)

\* C27: margin restoration.  After a liquidation without fees of a position
\* with equity > 0, closing the size returned by
\* compute_liquidation_close_size at the mark price, the remaining position
\* is flat or is_liquidatable is false for it.
C27_MarginRestored ==
    (/\ LiquidateCalled
     /\ call.res.ok
     /\ EquityBefore > 0
     /\ call.res.liq_fee = 0
     /\ call.res.insurance_penalty = 0
     /\ account.base_position # 0)
        => StillLiquidatable = Ok(FALSE)

====
